---------------------------- MODULE Spec2Model ----------------------------
(***************************************************************************)
(* A model of libhpl (src/libhpl/hpl.py): the HPL palette codec, the       *)
(* palette object with its index getters and setters, the PNG palette      *)
(* bridge and the 16x16 index mapping.                                     *)
(*                                                                         *)
(* A palette object (HPLPalette or one of its two subclasses) is the state *)
(* of the machine.  Every public method is one action: the action draws    *)
(* the call's arguments from a small set, computes what the Python code    *)
(* computes, and records the call (op, args), the exception it raised      *)
(* (err, "none" when it returned) and its result (ret: the returned bytes, *)
(* or for save_hpl the bytes written to the output).                       *)
(*                                                                         *)
(* bytes / bytearray values are sequences of integers 0..255.              *)
(***************************************************************************)
EXTENDS Integers, Sequences, FiniteSets

VARIABLES
    cls,         \* the class of the object: HPLPalette, PNGPalette, PNGPaletteImage
    rgba,        \* self.rgba
    pixel_size,  \* PNGPalette.pixel_size, 0 in the classes without the field
    image_size,  \* PNGPaletteImage.image_size, <<width, height>>
    image_data,  \* PNGPaletteImage.image_data, one palette index per pixel
    edits,       \* setter calls made on the object so far
    op,          \* the last method called
    args,        \* its arguments
    err,         \* the exception it raised, "none" when it returned
    ret          \* what it returned or wrote

vars == <<cls, rgba, pixel_size, image_size, image_data, edits, op, args, err, ret>>

---------------------------------------------------------------------------
(* Program constants.                                                      *)

RAW_RGBA_SIZE == 4
RAW_RGB_SIZE == 3
RAW_A_SIZE == 1

HPL_MAX_COLORS == 256
PALETTE_SQUARE_SIZE == 16

HPAL_HEADER ==
    <<72, 80, 65, 76, 37, 1, 0, 0, 32, 4, 0, 0, 0, 1, 0, 0,
      0, 0, 0, 0, 0, 0, 0, 0, 1, 0, 0, 16, 0, 0, 0, 0>>

(* The exceptions the code raises, by their message.                       *)
E_NONE == "none"
E_NOT_HPL == "ValueError: Not a valid HPL file!"
E_NOT_EXIST == "ValueError: Palette does not exist!"
E_LIMIT == "ValueError: Palette has more colors than HPL palettes support!"
E_NOT_LOADED == "ValueError: No palette has been loaded!"
E_NOT_RGBA == "ValueError: Colors must be provided as RGBA!"
E_MISMATCH == "ValueError: Mismatch between RGB and transparency data!"
E_NO_IMAGE == "ValueError: No image has been loaded!"
E_INPUT_TYPE == "TypeError: Unsupported palette type!"
E_OUTPUT_TYPE == "TypeError: Unsupported output type!"
E_INDEX_TYPE == "TypeError: Unsupported palette index type!"
E_COLOR_TYPE == "TypeError: Invalid color type"
E_INDEX == "IndexError"

---------------------------------------------------------------------------
(* Python sequence operations.                                             *)

Min(a, b) == IF a < b THEN a ELSE b

Max(a, b) == IF a < b THEN b ELSE a

(* s[:n] for n >= 0.                                                       *)
Take(s, n) == SubSeq(s, 1, Min(n, Len(s)))

(* s[n:] for n >= 0.                                                       *)
Drop(s, n) == SubSeq(s, Min(n, Len(s)) + 1, Len(s))

(* s[::-1].                                                                *)
Reverse(s) == [i \in 1..Len(s) |-> s[Len(s) + 1 - i]]

(* The position a slice bound denotes in a sequence of length n: a         *)
(* negative bound counts from the end, and the result is clamped to 0..n.  *)
SliceBound(b, n) == IF b < 0 THEN Max(b + n, 0) ELSE Min(b, n)

(* s[start:stop] with Python's treatment of negative and out-of-range      *)
(* bounds: never an error, possibly empty.                                 *)
GetSlice(s, start, stop) ==
    LET lo == SliceBound(start, Len(s))
        hi == SliceBound(stop, Len(s))
    IN  IF lo < hi THEN SubSeq(s, lo + 1, hi) ELSE <<>>

(* s[start:stop] = value on a bytearray: the slice (empty when stop is not *)
(* after start) is replaced by value, whatever the two lengths.            *)
SetSlice(s, start, stop, value) ==
    LET lo == SliceBound(start, Len(s))
        hi == Max(SliceBound(stop, Len(s)), lo)
    IN  SubSeq(s, 1, lo) \o value \o SubSeq(s, hi + 1, Len(s))

(* bytes.startswith.                                                       *)
StartsWith(s, prefix) ==
    /\ Len(s) >= Len(prefix)
    /\ SubSeq(s, 1, Len(prefix)) = prefix

(* What a call produced: the exception raised, or the value returned.      *)
Raise(e) == [err |-> e, val |-> <<>>]

Return(v) == [err |-> E_NONE, val |-> v]

---------------------------------------------------------------------------
(* The HPL codec.                                                          *)

(* One pass through the body of the while loop of _parse_color_data, on   *)
(* the loop's variables [remaining, rgba]: one alpha byte, then three      *)
(* colour bytes, appended as colour bytes followed by alpha.               *)
(* parse_body without the channel reordering: alpha stays in front.        *)
parse_body_argb(s) ==
    LET a == Take(s.remaining, RAW_A_SIZE)
        rest == Drop(s.remaining, RAW_A_SIZE)
        rgb == Take(rest, RAW_RGB_SIZE)
    IN  [remaining |-> Drop(rest, RAW_RGB_SIZE), rgba |-> s.rgba \o a \o rgb]

parse_body(s) ==
    LET a == Take(s.remaining, RAW_A_SIZE)
        rest == Drop(s.remaining, RAW_A_SIZE)
        rgb == Take(rest, RAW_RGB_SIZE)
    IN  [remaining |-> Drop(rest, RAW_RGB_SIZE), rgba |-> s.rgba \o rgb \o a]

(* while remaining_argb: body, run for at most fuel passes.  Every pass    *)
(* consumes a byte, so a fuel of len(remaining_argb) runs the loop to its  *)
(* end.  The passes are split in halves to keep the evaluation shallow,   *)
(* and the second half is skipped once the loop has ended.                 *)
RECURSIVE parse_while(_, _)
parse_while(s, fuel) ==
    IF fuel = 0 THEN s
    ELSE IF fuel = 1 THEN (IF s.remaining = <<>> THEN s ELSE parse_body(s))
    ELSE LET first == parse_while(s, fuel \div 2)
         IN  IF first.remaining = <<>> THEN first
             ELSE parse_while(first, fuel - fuel \div 2)

(* _parse_color_data with the limit off by one: 256 colours are refused.   *)
_parse_color_data_ge(color_data) ==
    LET num_colors == Len(color_data) \div (RAW_RGB_SIZE + RAW_A_SIZE)
    IN  IF num_colors >= HPL_MAX_COLORS THEN Raise(E_LIMIT)
        ELSE Return(parse_while([remaining |-> Reverse(color_data), rgba |-> <<>>],
                                Len(color_data)).rgba)

_parse_color_data(color_data) ==
    LET num_colors == Len(color_data) \div (RAW_RGB_SIZE + RAW_A_SIZE)
    IN  IF num_colors > HPL_MAX_COLORS THEN Raise(E_LIMIT)
        ELSE Return(parse_while([remaining |-> Reverse(color_data), rgba |-> <<>>],
                                Len(color_data)).rgba)

(* hpl_input is [type, exists, contents]: a str path (whose file exists or *)
(* not), an io.BytesIO, or a value of any other type.                      *)
load_hpl_contents(hpl_input) ==
    IF hpl_input.type = "str" /\ hpl_input.exists THEN Return(hpl_input.contents)
    ELSE IF hpl_input.type = "str" /\ ~hpl_input.exists THEN Raise(E_NOT_EXIST)
    ELSE IF hpl_input.type = "BytesIO" THEN Return(hpl_input.contents)
    ELSE Raise(E_INPUT_TYPE)

_load_hpl(hpl_input) ==
    LET read == load_hpl_contents(hpl_input)
    IN  IF read.err # E_NONE THEN read
        ELSE IF ~StartsWith(read.val, HPAL_HEADER) THEN Raise(E_NOT_HPL)
        ELSE _parse_color_data(Drop(read.val, Len(HPAL_HEADER)))

(* One pass through the body of the while loop of _save_hpl, on the       *)
(* loop's variables [remaining, written]: one alpha byte, then three colour*)
(* bytes, written as colour bytes followed by alpha.                       *)
(* save_body without the channel reordering: ABGR is written as read.      *)
save_body_abgr(s) ==
    LET a == Take(s.remaining, RAW_A_SIZE)
        rest == Drop(s.remaining, RAW_A_SIZE)
        bgr == Take(rest, RAW_RGB_SIZE)
    IN  [remaining |-> Drop(rest, RAW_RGB_SIZE), written |-> s.written \o a \o bgr]

save_body(s) ==
    LET a == Take(s.remaining, RAW_A_SIZE)
        rest == Drop(s.remaining, RAW_A_SIZE)
        bgr == Take(rest, RAW_RGB_SIZE)
        bgra == bgr \o a
    IN  [remaining |-> Drop(rest, RAW_RGB_SIZE), written |-> s.written \o bgra]

(* while remaining_abgr: body, run for at most fuel passes.                *)
RECURSIVE save_while(_, _)
save_while(s, fuel) ==
    IF fuel = 0 THEN s
    ELSE IF fuel = 1 THEN (IF s.remaining = <<>> THEN s ELSE save_body(s))
    ELSE LET first == save_while(s, fuel \div 2)
         IN  IF first.remaining = <<>> THEN first
             ELSE save_while(first, fuel - fuel \div 2)

(* _save_hpl walking the palette front to back instead of in reverse.      *)
_save_hpl_forward(buf, hpl_output) ==
    LET num_colors == Len(buf) \div (RAW_RGB_SIZE + RAW_A_SIZE)
    IN  IF num_colors > HPL_MAX_COLORS THEN Raise(E_LIMIT)
        ELSE IF hpl_output \notin {"str", "BytesIO"} THEN Raise(E_OUTPUT_TYPE)
        ELSE Return(save_while([remaining |-> buf, written |-> HPAL_HEADER],
                               Len(buf)).written)

(* hpl_output is the type of the destination: a str path or an io.BytesIO  *)
(* (both receive the same bytes), or a value of any other type.  The value *)
(* returned is what the destination holds afterwards.                      *)
_save_hpl(buf, hpl_output) ==
    LET num_colors == Len(buf) \div (RAW_RGB_SIZE + RAW_A_SIZE)
    IN  IF num_colors > HPL_MAX_COLORS THEN Raise(E_LIMIT)
        ELSE IF hpl_output \notin {"str", "BytesIO"} THEN Raise(E_OUTPUT_TYPE)
        ELSE Return(save_while([remaining |-> Reverse(buf), written |-> HPAL_HEADER],
                               Len(buf)).written)

---------------------------------------------------------------------------
(* The palette object's index arithmetic and its getters and setters.      *)

(* A palette index is an int, [type |-> "int", value |-> i], an (x, y)     *)
(* tuple, [type |-> "tuple", x |-> x, y |-> y], or a value of another type.*)
IntIndex(i) == [type |-> "int", value |-> i]

TupleIndex(x, y) == [type |-> "tuple", x |-> x, y |-> y]

(* color_offset with the coordinates transposed.                           *)
color_offset_transposed(index) ==
    IF index.type = "tuple" THEN index.x * PALETTE_SQUARE_SIZE + index.y
    ELSE index.value

(* The colour offset _index_to_offset computes before it scales it to a    *)
(* byte offset: the linear index an index denotes.                         *)
color_offset(index) ==
    IF index.type = "tuple" THEN index.y * PALETTE_SQUARE_SIZE + index.x
    ELSE index.value

_index_to_offset(index) ==
    IF index.type \notin {"int", "tuple"} THEN Raise(E_INDEX_TYPE)
    ELSE Return(color_offset(index) * RAW_RGBA_SIZE)

_get_index_color(buf, index) ==
    LET off == _index_to_offset(index)
    IN  IF off.err # E_NONE THEN off
        ELSE Return(GetSlice(buf, off.val, off.val + RAW_RGBA_SIZE))

(* A colour is [type, value]: bytes, bytearray or a tuple of ints 0..255,  *)
(* or a sized value of another type (a list).  The result is the exception *)
(* raised and the buffer after the call.                                   *)
_set_index_color(buf, index, color) ==
    IF Len(color.value) # RAW_RGBA_SIZE THEN [err |-> E_NOT_RGBA, buf |-> buf]
    ELSE IF color.type \notin {"bytes", "bytearray", "tuple"}
         THEN [err |-> E_COLOR_TYPE, buf |-> buf]
    ELSE LET off == _index_to_offset(index)
         IN  IF off.err # E_NONE THEN [err |-> off.err, buf |-> buf]
             ELSE [err |-> E_NONE,
                   buf |-> SetSlice(buf, off.val, off.val + RAW_RGBA_SIZE, color.value)]

(* The for loop of set_index_color_range: the pairs are applied in order,  *)
(* and an exception ends the loop with the earlier pairs applied.          *)
RECURSIVE set_range_loop(_, _)
set_range_loop(buf, index_colors) ==
    IF index_colors = <<>> THEN [err |-> E_NONE, buf |-> buf]
    ELSE LET r == _set_index_color(buf, index_colors[1].index, index_colors[1].color)
         IN  IF r.err # E_NONE THEN r
             ELSE set_range_loop(r.buf, Tail(index_colors))

---------------------------------------------------------------------------
(* The PNG palette bridge.  PIL hands over the palette as rgb (three bytes *)
(* per entry) and the tRNS chunk as alpha (one byte per entry); png_input  *)
(* is [size, image, rgb, alpha].                                           *)

(* One pass through the body of the while loop of _load_png, on the       *)
(* loop's variables [rgb, alpha, rgba]: three colour bytes, then one alpha *)
(* byte.                                                                   *)
(* png_body with the alpha byte put in front of the colour bytes.          *)
png_body_alpha_first(s) ==
    [rgb |-> Drop(s.rgb, RAW_RGB_SIZE),
     alpha |-> Drop(s.alpha, RAW_A_SIZE),
     rgba |-> s.rgba \o Take(s.alpha, RAW_A_SIZE) \o Take(s.rgb, RAW_RGB_SIZE)]

png_body(s) ==
    [rgb |-> Drop(s.rgb, RAW_RGB_SIZE),
     alpha |-> Drop(s.alpha, RAW_A_SIZE),
     rgba |-> s.rgba \o Take(s.rgb, RAW_RGB_SIZE) \o Take(s.alpha, RAW_A_SIZE)]

(* while remaining_rgb: body, run for at most fuel passes.                 *)
RECURSIVE png_while(_, _)
png_while(s, fuel) ==
    IF fuel = 0 THEN s
    ELSE IF fuel = 1 THEN (IF s.rgb = <<>> THEN s ELSE png_body(s))
    ELSE LET first == png_while(s, fuel \div 2)
         IN  IF first.rgb = <<>> THEN first
             ELSE png_while(first, fuel - fuel \div 2)

_load_png(png_input) ==
    IF Len(png_input.rgb) # Len(png_input.alpha) * RAW_RGB_SIZE
    THEN [err |-> E_MISMATCH, size |-> <<0, 0>>, image |-> <<>>, rgba |-> <<>>]
    ELSE [err |-> E_NONE, size |-> png_input.size, image |-> png_input.image,
          rgba |-> png_while([rgb |-> png_input.rgb, alpha |-> png_input.alpha,
                              rgba |-> <<>>], Len(png_input.rgb)).rgba]

(* The grid cell of a palette index, as _get_palette_index computes it.    *)
palette_cell(palette_index_int) ==
    LET palette_x == palette_index_int % PALETTE_SQUARE_SIZE
        palette_y == (palette_index_int - palette_x) \div PALETTE_SQUARE_SIZE
    IN  <<palette_x, palette_y>>

(* pixel is <<x, y>> with x, y >= 0; indexing past the image data raises.  *)
_get_palette_index(size, data, x, y) ==
    LET width == size[1]
        pixel_offset == y * width + x
    IN  IF pixel_offset >= Len(data) THEN Raise(E_INDEX)
        ELSE Return(palette_cell(data[pixel_offset + 1]))

---------------------------------------------------------------------------
(* The palette visualization.  The image is PIL's: the model keeps the     *)
(* rectangle calls made on it, each with its corners dim, its fill key and *)
(* the palette index the key was bound to in palette.colors on the line    *)
(* before the call (ink).                                                  *)

(* One pass through the body of the while loop of _save_png, on the loop's *)
(* variables [remaining, rgb, alpha]: three colour bytes, then one alpha   *)
(* byte.                                                                   *)
split_body(s) ==
    LET after_rgb == Drop(s.remaining, RAW_RGB_SIZE)
    IN  [remaining |-> Drop(after_rgb, RAW_A_SIZE),
         rgb |-> s.rgb \o Take(s.remaining, RAW_RGB_SIZE),
         alpha |-> s.alpha \o Take(after_rgb, RAW_A_SIZE)]

(* while remaining_rgba: body, run for at most fuel passes.                *)
RECURSIVE split_while(_, _)
split_while(s, fuel) ==
    IF fuel = 0 THEN s
    ELSE IF fuel = 1 THEN (IF s.remaining = <<>> THEN s ELSE split_body(s))
    ELSE LET first == split_while(s, fuel \div 2)
         IN  IF first.remaining = <<>> THEN first
             ELSE split_while(first, fuel - fuel \div 2)

(* One pass through the body of the for loop of _draw_image, on the loop's *)
(* variables [x, y, palette_index, fills].                                 *)
draw_body(s, size) ==
    LET x_offset == s.x * size
        y_offset == s.y * size
        dim == <<<<x_offset, y_offset>>, <<x_offset + size, y_offset + size>>>>
        x == (s.x + 1) % PALETTE_SQUARE_SIZE
    IN  [x |-> x,
         y |-> IF x = 0 THEN s.y + 1 ELSE s.y,
         palette_index |-> s.palette_index + 1,
         fills |-> Append(s.fills, [dim |-> dim, fill |-> <<s.x, s.y>>,
                                    ink |-> s.palette_index])]

(* for palette_index in range(HPL_MAX_COLORS): body, run for at most fuel  *)
(* passes.                                                                 *)
RECURSIVE draw_for(_, _, _)
draw_for(s, size, fuel) ==
    IF fuel = 0 THEN s
    ELSE IF fuel = 1
         THEN (IF s.palette_index >= HPL_MAX_COLORS THEN s ELSE draw_body(s, size))
    ELSE LET first == draw_for(s, size, fuel \div 2)
         IN  IF first.palette_index >= HPL_MAX_COLORS THEN first
             ELSE draw_for(first, size, fuel - fuel \div 2)

(* The rectangle calls _draw_image makes, in order, for a pixel_size.      *)
_draw_image(size) ==
    draw_for([x |-> 0, y |-> 0, palette_index |-> 0, fills |-> <<>>],
             size, HPL_MAX_COLORS).fills

(* drawn is what the draw_image callback drew on the new image.  The value *)
(* returned is what Image.save is handed: the image's size and drawing,    *)
(* the palette and the transparency.                                       *)
_save_png(buf, size, drawn) ==
    LET s == split_while([remaining |-> buf, rgb |-> <<>>, alpha |-> <<>>], Len(buf))
    IN  Return([size |-> size, fills |-> drawn, rgb |-> s.rgb, alpha |-> s.alpha])

(* The pixels of an image of the given size that ImageDraw.rectangle       *)
(* fills: both corners of dim are part of the rectangle.                   *)
rectangle(dim, size) ==
    (Max(dim[1][1], 0)..Min(dim[2][1], size[1] - 1))
    \X (Max(dim[1][2], 0)..Min(dim[2][2], size[2] - 1))

---------------------------------------------------------------------------
(* The arguments the calls are made with.                                  *)

MaxEntries == 2
MaxEdits == 1

(* n entries, entry e being (e, e + 64, e + 128, e + 192) modulo 256: the  *)
(* four channels of an entry differ, and so do the entries.                *)
Pattern(n) ==
    [i \in 1..(n * RAW_RGBA_SIZE) |->
        (((i - 1) \div RAW_RGBA_SIZE) + 64 * ((i - 1) % RAW_RGBA_SIZE)) % 256]

SmallBuffers == {Pattern(n) : n \in 0..MaxEntries}

Tails == {<<>>, <<9>>}

HplBodies ==
    {b \o t : b \in SmallBuffers, t \in Tails}
    \cup {Pattern(HPL_MAX_COLORS), Pattern(HPL_MAX_COLORS + 1)}

BytesIO(contents) == [type |-> "BytesIO", exists |-> TRUE, contents |-> contents]

HplInputs ==
    {BytesIO(HPAL_HEADER \o b) : b \in HplBodies}
    \cup {BytesIO(<<>>),
          BytesIO(Take(HPAL_HEADER, Len(HPAL_HEADER) - 1)),
          BytesIO(<<72, 80, 65, 77>> \o Drop(HPAL_HEADER, 4) \o <<1, 2, 3, 4>>),
          [type |-> "str", exists |-> TRUE, contents |-> HPAL_HEADER \o Pattern(1)],
          [type |-> "str", exists |-> FALSE, contents |-> <<>>],
          [type |-> "NoneType", exists |-> FALSE, contents |-> <<>>]}

HplOutputs == {"BytesIO", "str", "NoneType"}

(* The rgb and alpha arrays of a flattened buffer.                         *)
RgbOf(b) ==
    [i \in 1..((Len(b) \div RAW_RGBA_SIZE) * RAW_RGB_SIZE) |->
        b[((i - 1) \div RAW_RGB_SIZE) * RAW_RGBA_SIZE + ((i - 1) % RAW_RGB_SIZE) + 1]]

AlphaOf(b) == [i \in 1..(Len(b) \div RAW_RGBA_SIZE) |-> b[i * RAW_RGBA_SIZE]]

(* A 4x4 indexed image, and a 16x16 one whose pixel (x, y) holds the       *)
(* palette index 255 - (16 y + x).                                         *)
SmallImage ==
    [size |-> <<4, 4>>,
     image |-> <<255, 0, 1, 15, 16, 17, 31, 32, 100, 127, 128, 200, 239, 240, 254, 250>>]

GridImage ==
    [size |-> <<PALETTE_SQUARE_SIZE, PALETTE_SQUARE_SIZE>>,
     image |-> [i \in 1..(PALETTE_SQUARE_SIZE * PALETTE_SQUARE_SIZE) |-> HPL_MAX_COLORS - i]]

Png(im, rgb, alpha) ==
    [size |-> im.size, image |-> im.image, rgb |-> rgb, alpha |-> alpha]

PngInputs ==
    {Png(SmallImage, RgbOf(b), AlphaOf(b)) : b \in SmallBuffers \ {<<>>}}
    \cup {Png(SmallImage, <<1, 2, 3>>, <<4, 8>>),
          Png(SmallImage, <<1, 2, 3, 5>>, <<4>>),
          Png(SmallImage, RgbOf(Pattern(10)), AlphaOf(Pattern(11)))}

ImagePngInputs ==
    {Png(SmallImage, <<1, 2, 3>>, <<4>>),
     Png(GridImage, RgbOf(Pattern(2)), AlphaOf(Pattern(2))),
     Png(GridImage, <<1, 2, 3>>, <<4, 8>>)}

ImageHplInputs == {BytesIO(HPAL_HEADER \o Pattern(HPL_MAX_COLORS))}

(* _load_hpl on each of these inputs, evaluated once.                      *)
load_hpl_table == [hpl_input \in HplInputs \cup ImageHplInputs |-> _load_hpl(hpl_input)]

Str == [type |-> "str"]

Indices ==
    {IntIndex(0), IntIndex(2), IntIndex(HPL_MAX_COLORS), IntIndex(-1), IntIndex(-2),
     TupleIndex(1, 0), TupleIndex(15, 15), TupleIndex(0, 16), Str}

Bytes(value) == [type |-> "bytes", value |-> value]

Pair(i, c) == [index |-> i, color |-> c]

SetCalls ==
    {Pair(IntIndex(0), Bytes(<<10, 20, 30, 40>>)),
     Pair(IntIndex(0), [type |-> "tuple", value |-> <<10, 20, 30, 40>>]),
     Pair(IntIndex(HPL_MAX_COLORS), Bytes(<<10, 20, 30, 40>>)),
     Pair(IntIndex(-1), Bytes(<<10, 20, 30, 40>>)),
     Pair(TupleIndex(1, 0), Bytes(<<10, 20, 30, 40>>)),
     Pair(TupleIndex(0, 16), Bytes(<<10, 20, 30, 40>>)),
     Pair(IntIndex(0), Bytes(<<10, 20, 30>>)),
     Pair(IntIndex(0), [type |-> "list", value |-> <<10, 20, 30, 40>>]),
     Pair(Str, Bytes(<<10, 20, 30, 40>>))}

Batches ==
    LET good == Bytes(<<10, 20, 30, 40>>)
        other == Bytes(<<90, 91, 92, 93>>)
        short == Bytes(<<10, 20, 30>>)
    IN  {<<>>,
         <<Pair(IntIndex(0), good), Pair(IntIndex(1), other)>>,
         <<Pair(IntIndex(0), good), Pair(IntIndex(1), short)>>,
         <<Pair(IntIndex(0), good), Pair(IntIndex(HPL_MAX_COLORS), other)>>,
         <<Pair(TupleIndex(1, 0), good), Pair(TupleIndex(0, 16), other)>>,
         <<Pair(IntIndex(0), good), Pair(Str, other)>>}

(* The cells of the 16x16 grid.                                            *)
Grid == (0..(PALETTE_SQUARE_SIZE - 1)) \X (0..(PALETTE_SQUARE_SIZE - 1))

(* The cells on the border and on the diagonal of the grid, as pixels (and *)
(* one pixel past the image) and as palette indices.                       *)
GridSample ==
    {c \in Grid : c[1] = c[2] \/ c[1] \in {0, PALETTE_SQUARE_SIZE - 1}
                            \/ c[2] \in {0, PALETTE_SQUARE_SIZE - 1}}

Pixels == GridSample \cup {<<0, PALETTE_SQUARE_SIZE>>}

GridIndices == {TupleIndex(c[1], c[2]) : c \in GridSample}

(* The pixel sizes a PNGPalette is constructed with, the palettes it loads *)
(* and the entries it is asked to change before it draws.                  *)
MaxPixelSize == 2

PixelSizes == 1..MaxPixelSize

DrawHplInputs == {BytesIO(HPAL_HEADER \o b) : b \in SmallBuffers} \cup ImageHplInputs

DrawSetCalls ==
    {Pair(IntIndex(0), Bytes(<<10, 20, 30, 40>>)),
     Pair(IntIndex(1), Bytes(<<90, 91, 92, 93>>)),
     Pair(TupleIndex(15, 15), Bytes(<<10, 20, 30, 40>>)),
     Pair(IntIndex(0), Bytes(<<10, 20, 30>>))}

PngOutputs == {"BytesIO", "str"}

(* _draw_image for each of these pixel sizes, evaluated once.              *)
draw_image_table == [size \in PixelSizes |-> _draw_image(size)]

---------------------------------------------------------------------------
(* The state after construction, and one action per method.                *)

Init ==
    /\ cls \in {"HPLPalette", "PNGPalette"}
    /\ rgba = <<>>
    /\ pixel_size = IF cls = "PNGPalette" THEN 1 ELSE 0
    /\ image_size = <<0, 0>>
    /\ image_data = <<>>
    /\ edits = 0
    /\ op = "__init__"
    /\ args = [none |-> TRUE]
    /\ err = E_NONE
    /\ ret = <<>>

(* A PNGPaletteImage after construction.                                   *)
InitImage ==
    /\ cls = "PNGPaletteImage"
    /\ rgba = <<>>
    /\ pixel_size = 0
    /\ image_size = <<0, 0>>
    /\ image_data = <<>>
    /\ edits = 0
    /\ op = "__init__"
    /\ args = [none |-> TRUE]
    /\ err = E_NONE
    /\ ret = <<>>

load_hpl(hpl_input) ==
    LET r == IF hpl_input \in DOMAIN load_hpl_table THEN load_hpl_table[hpl_input]
             ELSE _load_hpl(hpl_input)
    IN  /\ rgba' = IF r.err = E_NONE THEN r.val ELSE rgba
        /\ op' = "load_hpl"
        /\ args' = [hpl_input |-> hpl_input]
        /\ err' = r.err
        /\ ret' = <<>>
        /\ UNCHANGED <<cls, pixel_size, image_size, image_data, edits>>

save_hpl(hpl_output) ==
    LET r == IF rgba = <<>> THEN Raise(E_NOT_LOADED) ELSE _save_hpl(rgba, hpl_output)
    IN  /\ op' = "save_hpl"
        /\ args' = [hpl_output |-> hpl_output]
        /\ err' = r.err
        /\ ret' = r.val
        /\ UNCHANGED <<cls, pixel_size, rgba, image_size, image_data, edits>>

get_index_color(index) ==
    LET r == IF rgba = <<>> THEN Raise(E_NOT_LOADED) ELSE _get_index_color(rgba, index)
    IN  /\ op' = "get_index_color"
        /\ args' = [index |-> index]
        /\ err' = r.err
        /\ ret' = r.val
        /\ UNCHANGED <<cls, pixel_size, rgba, image_size, image_data, edits>>

set_index_color(index, color) ==
    LET r == IF rgba = <<>> THEN [err |-> E_NOT_LOADED, buf |-> rgba]
             ELSE _set_index_color(rgba, index, color)
    IN  /\ edits < MaxEdits
        /\ edits' = edits + 1
        /\ rgba' = r.buf
        /\ op' = "set_index_color"
        /\ args' = [index |-> index, color |-> color]
        /\ err' = r.err
        /\ ret' = <<>>
        /\ UNCHANGED <<cls, pixel_size, image_size, image_data>>

set_index_color_range(index_colors) ==
    LET r == IF rgba = <<>> THEN [err |-> E_NOT_LOADED, buf |-> rgba]
             ELSE set_range_loop(rgba, index_colors)
    IN  /\ edits < MaxEdits
        /\ edits' = edits + 1
        /\ rgba' = r.buf
        /\ op' = "set_index_color_range"
        /\ args' = [index_colors |-> index_colors]
        /\ err' = r.err
        /\ ret' = <<>>
        /\ UNCHANGED <<cls, pixel_size, image_size, image_data>>

(* PNGPalette.load_png keeps the palette and drops the image.              *)
PNGPalette_load_png(png_input) ==
    LET r == _load_png(png_input)
    IN  /\ cls = "PNGPalette"
        /\ rgba' = IF r.err = E_NONE THEN r.rgba ELSE rgba
        /\ op' = "load_png"
        /\ args' = [png_input |-> png_input]
        /\ err' = r.err
        /\ ret' = <<>>
        /\ UNCHANGED <<cls, pixel_size, image_size, image_data, edits>>

(* PNGPaletteImage.load_png keeps the image and drops the palette.         *)
PNGPaletteImage_load_png(png_input) ==
    LET r == _load_png(png_input)
    IN  /\ cls = "PNGPaletteImage"
        /\ image_size' = IF r.err = E_NONE THEN r.size ELSE image_size
        /\ image_data' = IF r.err = E_NONE THEN r.image ELSE image_data
        /\ op' = "load_png"
        /\ args' = [png_input |-> png_input]
        /\ err' = r.err
        /\ ret' = <<>>
        /\ UNCHANGED <<cls, pixel_size, rgba, edits>>

get_palette_index(pixel) ==
    LET r == IF image_data = <<>> THEN Raise(E_NO_IMAGE)
             ELSE _get_palette_index(image_size, image_data, pixel[1], pixel[2])
    IN  /\ cls = "PNGPaletteImage"
        /\ op' = "get_palette_index"
        /\ args' = [pixel |-> pixel]
        /\ err' = r.err
        /\ ret' = r.val
        /\ UNCHANGED <<cls, pixel_size, rgba, image_size, image_data, edits>>

(* A PNGPalette after construction with a pixel size.                      *)
InitDraw ==
    /\ cls = "PNGPalette"
    /\ rgba = <<>>
    /\ pixel_size \in PixelSizes
    /\ image_size = <<0, 0>>
    /\ image_data = <<>>
    /\ edits = 0
    /\ op = "__init__"
    /\ args = [pixel_size |-> pixel_size]
    /\ err = E_NONE
    /\ ret = <<>>

save_png(png_output) ==
    LET length == pixel_size * PALETTE_SQUARE_SIZE
        drawn == IF pixel_size \in DOMAIN draw_image_table
                 THEN draw_image_table[pixel_size]
                 ELSE _draw_image(pixel_size)
        r == IF rgba = <<>> THEN Raise(E_NOT_LOADED)
             ELSE _save_png(rgba, <<length, length>>, drawn)
    IN  /\ cls = "PNGPalette"
        /\ op' = "save_png"
        /\ args' = [png_output |-> png_output]
        /\ err' = r.err
        /\ ret' = r.val
        /\ UNCHANGED <<cls, pixel_size, rgba, image_size, image_data, edits>>

(* The calls on an HPLPalette or a PNGPalette.                             *)
Next ==
    \/ \E hpl_input \in HplInputs : load_hpl(hpl_input)
    \/ \E hpl_output \in HplOutputs : save_hpl(hpl_output)
    \/ \E index \in Indices : get_index_color(index)
    \/ \E c \in SetCalls : set_index_color(c.index, c.color)
    \/ \E index_colors \in Batches : set_index_color_range(index_colors)
    \/ \E png_input \in PngInputs : PNGPalette_load_png(png_input)

Spec == Init /\ [][Next]_vars

(* The calls on a PNGPaletteImage that concern the index mapping.          *)
NextImage ==
    \/ \E hpl_input \in ImageHplInputs : load_hpl(hpl_input)
    \/ \E png_input \in ImagePngInputs : PNGPaletteImage_load_png(png_input)
    \/ \E pixel \in Pixels : get_palette_index(pixel)
    \/ \E index \in GridIndices : get_index_color(index)

SpecImage == InitImage /\ [][NextImage]_vars

(* The calls on a PNGPalette that lead to a visualization.                 *)
NextDraw ==
    \/ \E hpl_input \in DrawHplInputs : load_hpl(hpl_input)
    \/ \E png_input \in PngInputs : PNGPalette_load_png(png_input)
    \/ \E c \in DrawSetCalls : set_index_color(c.index, c.color)
    \/ \E png_output \in PngOutputs : save_png(png_output)

SpecDraw == InitDraw /\ [][NextDraw]_vars

---------------------------------------------------------------------------
(* Vocabulary of the properties.                                           *)

(* A buffer made of whole 4-byte entries, and the number of its entries.   *)
Canonical(buf) == Len(buf) % RAW_RGBA_SIZE = 0

NumEntries(buf) == Len(buf) \div RAW_RGBA_SIZE

(* The 4 bytes of entry (or on-disk group) i, counted from 0.              *)
Entry(buf, i) == SubSeq(buf, i * RAW_RGBA_SIZE + 1, (i + 1) * RAW_RGBA_SIZE)

(* The channels of a 4-byte group with the first and the third exchanged:  *)
(* (R, G, B, A) to (B, G, R, A) and back.                                  *)
SwapRB(e) == <<e[3], e[2], e[1], e[4]>>

(* The bytes load_hpl read, when its input could be read.                  *)
Readable(hpl_input) ==
    hpl_input.type = "BytesIO" \/ (hpl_input.type = "str" /\ hpl_input.exists)

HasHeader(contents) == StartsWith(contents, HPAL_HEADER)

BodyOf(contents) == Drop(contents, Len(HPAL_HEADER))

(* The 32-byte header followed by 4 N body bytes, N <= 256.                *)
WellFormed(contents) ==
    /\ HasHeader(contents)
    /\ Canonical(BodyOf(contents))
    /\ NumEntries(BodyOf(contents)) <= HPL_MAX_COLORS

(* An index that resolves to a linear index outside 0..N-1 of buf.         *)
OutOfRange(index, buf) ==
    /\ index.type \in {"int", "tuple"}
    /\ color_offset(index) \notin 0..(NumEntries(buf) - 1)

---------------------------------------------------------------------------
(* C1: when save_hpl has written a canonical palette of 1..256 entries,   *)
(* decoding the bytes it wrote succeeds and yields exactly that palette:   *)
(* decode(encode(P)) = P.                                                  *)
C1_DecodeEncodeRoundTrip ==
    (/\ op = "save_hpl"
     /\ err = E_NONE
     /\ Canonical(rgba)
     /\ NumEntries(rgba) \in 1..HPL_MAX_COLORS)
    => _load_hpl(BytesIO(ret)) = Return(rgba)

(* A 256-entry palette whose entry 0 was set by a setter has been written. *)
C1_Witness ==
    /\ op = "save_hpl"
    /\ err = E_NONE
    /\ Canonical(rgba)
    /\ NumEntries(rgba) = HPL_MAX_COLORS
    /\ Entry(rgba, 0) = <<10, 20, 30, 40>>

(* C2 as claimed: for every well-formed stream B (N <= 256), load_hpl of B *)
(* followed by save_hpl to a supported destination writes exactly B.       *)
C2_EncodeDecodeRoundTrip_Original ==
    [][(/\ op = "load_hpl"
        /\ err = E_NONE
        /\ WellFormed(args.hpl_input.contents)
        /\ op' = "save_hpl"
        /\ args'.hpl_output \in {"str", "BytesIO"})
       => (err' = E_NONE /\ ret' = args.hpl_input.contents)]_vars

(* C2 as amended: for every well-formed stream B with 1 <= N <= 256,       *)
(* load_hpl of B followed by save_hpl to a supported destination writes    *)
(* exactly B; a stream of the header alone loads an empty palette, which   *)
(* save_hpl refuses.                                                       *)
C2_EncodeDecodeRoundTrip ==
    [][(/\ op = "load_hpl"
        /\ err = E_NONE
        /\ WellFormed(args.hpl_input.contents)
        /\ op' = "save_hpl"
        /\ args'.hpl_output \in {"str", "BytesIO"})
       => IF NumEntries(BodyOf(args.hpl_input.contents)) >= 1
          THEN err' = E_NONE /\ ret' = args.hpl_input.contents
          ELSE err' = E_NOT_LOADED /\ ret' = <<>>]_vars

(* A 256-entry stream has been loaded and written back unedited.           *)
C2_Witness ==
    /\ op = "save_hpl"
    /\ err = E_NONE
    /\ edits = 0
    /\ ret = HPAL_HEADER \o Pattern(HPL_MAX_COLORS)

(* C3: save_hpl of a canonical palette of N entries writes the header and  *)
(* then N groups, group k holding entry N-1-k as (B, G, R, A); load_hpl of *)
(* a well-formed stream makes group k (B, G, R, A) entry N-1-k as          *)
(* (R, G, B, A).                                                           *)
C3_Layout ==
    /\ (op = "save_hpl" /\ err = E_NONE /\ Canonical(rgba))
       => /\ Len(ret) = Len(HPAL_HEADER) + Len(rgba)
          /\ Take(ret, Len(HPAL_HEADER)) = HPAL_HEADER
          /\ \A k \in 0..(NumEntries(rgba) - 1) :
                Entry(BodyOf(ret), k) = SwapRB(Entry(rgba, NumEntries(rgba) - 1 - k))
    /\ (op = "load_hpl" /\ err = E_NONE /\ WellFormed(args.hpl_input.contents))
       => /\ Len(rgba) = Len(BodyOf(args.hpl_input.contents))
          /\ \A k \in 0..(NumEntries(rgba) - 1) :
                Entry(rgba, NumEntries(rgba) - 1 - k)
                    = SwapRB(Entry(BodyOf(args.hpl_input.contents), k))

(* A palette of several different entries has been written.                *)
C3_Witness ==
    /\ op = "save_hpl"
    /\ err = E_NONE
    /\ Canonical(rgba)
    /\ NumEntries(rgba) = HPL_MAX_COLORS
    /\ Entry(rgba, 0) # Entry(rgba, HPL_MAX_COLORS - 1)

(* C4 as claimed: a set_index_color_range call on a loaded palette with a  *)
(* pair whose index is out of range or whose colour is not 4 bytes fails,  *)
(* and a failing call leaves the buffer as it was.                         *)
C4_RangeSetAtomic ==
    [][(op' = "set_index_color_range" /\ rgba # <<>>)
       => /\ (\E i \in 1..Len(args'.index_colors) :
                 \/ OutOfRange(args'.index_colors[i].index, rgba)
                 \/ Len(args'.index_colors[i].color.value) # RAW_RGBA_SIZE)
             => err' # E_NONE
          /\ err' # E_NONE => rgba' = rgba]_vars

(* C5 as claimed: get_index_color and set_index_color fail with NotLoaded  *)
(* on an empty palette, and on a loaded palette of N entries an index that *)
(* resolves outside 0..N-1 makes them fail, returning no colour and        *)
(* leaving the buffer unchanged.                                           *)
C5_IndexRangeChecked ==
    [][(/\ op' \in {"get_index_color", "set_index_color"}
        /\ args'.index.type \in {"int", "tuple"})
       => IF rgba = <<>> THEN err' = E_NOT_LOADED /\ rgba' = rgba
          ELSE OutOfRange(args'.index, rgba)
               => (err' # E_NONE /\ ret' = <<>> /\ rgba' = rgba)]_vars

(* C6 as claimed: load_hpl fails when the bytes after the header are not a *)
(* multiple of 4 in number, and the buffer is not replaced.                *)
C6_RaggedBodyRejected ==
    [][(/\ op' = "load_hpl"
        /\ Readable(args'.hpl_input)
        /\ HasHeader(args'.hpl_input.contents)
        /\ ~Canonical(BodyOf(args'.hpl_input.contents)))
       => (err' # E_NONE /\ rgba' = rgba)]_vars

(* C7: load_hpl of a header and 4 N body bytes, and save_hpl of a palette  *)
(* of N entries, raise the limit error exactly when N > 256, and succeed   *)
(* for every other N (save_hpl: N >= 1 and a supported destination).       *)
C7_LimitExactlyAbove256 ==
    /\ (/\ op = "load_hpl"
        /\ Readable(args.hpl_input)
        /\ HasHeader(args.hpl_input.contents)
        /\ Canonical(BodyOf(args.hpl_input.contents)))
       => /\ err = E_LIMIT <=> NumEntries(BodyOf(args.hpl_input.contents)) > HPL_MAX_COLORS
          /\ err \in {E_LIMIT, E_NONE}
    /\ (op = "save_hpl" /\ rgba # <<>> /\ Canonical(rgba))
       => /\ err = E_LIMIT <=> NumEntries(rgba) > HPL_MAX_COLORS
          /\ args.hpl_output \in {"str", "BytesIO"} => err \in {E_LIMIT, E_NONE}

(* A palette of 257 entries has been refused by save_hpl.                  *)
C7_Witness ==
    /\ op = "save_hpl"
    /\ Canonical(rgba)
    /\ NumEntries(rgba) = HPL_MAX_COLORS + 1
    /\ err = E_LIMIT

(* C8: PNGPalette.load_png with len(rgb) = 3 len(alpha) replaces the       *)
(* buffer by len(alpha) entries, entry i being (rgb[3i], rgb[3i+1],        *)
(* rgb[3i+2], alpha[i]); otherwise it raises the mismatch error and the    *)
(* buffer keeps its contents.                                              *)
C8_LoadPng ==
    [][(op' = "load_png" /\ cls = "PNGPalette")
       => LET rgb == args'.png_input.rgb
              alpha == args'.png_input.alpha
          IN  IF Len(rgb) = RAW_RGB_SIZE * Len(alpha)
              THEN /\ err' = E_NONE
                   /\ Len(rgba') = RAW_RGBA_SIZE * Len(alpha)
                   /\ \A i \in 0..(Len(alpha) - 1) :
                         Entry(rgba', i) = <<rgb[3 * i + 1], rgb[3 * i + 2],
                                             rgb[3 * i + 3], alpha[i + 1]>>
              ELSE err' = E_MISMATCH /\ rgba' = rgba]_vars

(* A PNG palette of two entries has replaced the buffer.                   *)
C8_Witness ==
    /\ op = "load_png"
    /\ cls = "PNGPalette"
    /\ err = E_NONE
    /\ rgba = Pattern(2)

(* C9: the mapping of _get_palette_index (linear to cell) and the mapping  *)
(* of _index_to_offset (cell to linear) are inverse bijections between     *)
(* 0..255 and the 16x16 grid; every cell get_palette_index returns maps    *)
(* back to the palette index stored at the pixel.                          *)
C9_IndexBijection ==
    /\ \A linear \in 0..(HPL_MAX_COLORS - 1) :
          /\ palette_cell(linear) \in Grid
          /\ color_offset(TupleIndex(palette_cell(linear)[1], palette_cell(linear)[2]))
                = linear
    /\ \A c \in Grid :
          /\ color_offset(TupleIndex(c[1], c[2])) \in 0..(HPL_MAX_COLORS - 1)
          /\ palette_cell(color_offset(TupleIndex(c[1], c[2]))) = c
    /\ (op = "get_palette_index" /\ err = E_NONE)
       => /\ ret \in Grid
          /\ color_offset(TupleIndex(ret[1], ret[2]))
                = image_data[args.pixel[2] * image_size[1] + args.pixel[1] + 1]
    /\ (op = "get_index_color" /\ err = E_NONE /\ args.index.type = "tuple")
       => /\ _index_to_offset(args.index).val
                = RAW_RGBA_SIZE * color_offset(args.index)
          /\ palette_cell(color_offset(args.index)) = <<args.index.x, args.index.y>>

(* The pixel (0, 0) of the 16x16 image holds palette index 255, and        *)
(* get_palette_index has returned the cell (15, 15).                       *)
C9_Witness ==
    /\ op = "get_palette_index"
    /\ err = E_NONE
    /\ args.pixel = <<0, 0>>
    /\ image_data[1] = HPL_MAX_COLORS - 1
    /\ ret = <<15, 15>>

(* C10 as claimed: the buffer always has a length that is a multiple of 4  *)
(* and holds at most 256 entries.                                          *)
C10_BufferInvariant ==
    /\ Canonical(rgba)
    /\ NumEntries(rgba) <= HPL_MAX_COLORS
---------------------------------------------------------------------------
(* C11: the visualization of a 256-entry palette is 256 rectangle calls,   *)
(* one per linear index 0..255 in order; the call for index k fills        *)
(* exactly the pixel_size x pixel_size block of pixels whose origin is     *)
(* (column * pixel_size, row * pixel_size), with column = k mod 16 and     *)
(* row = k div 16, inside the image of side 16 * pixel_size; the fill is   *)
(* the palette index k; and no two calls fill a common pixel.              *)
Block(k, size) ==
    LET column == k % PALETTE_SQUARE_SIZE
        row == k \div PALETTE_SQUARE_SIZE
    IN  ((column * size)..(column * size + size - 1))
        \X ((row * size)..(row * size + size - 1))

Drew256 ==
    /\ op = "save_png"
    /\ err = E_NONE
    /\ Canonical(rgba)
    /\ NumEntries(rgba) = HPL_MAX_COLORS

C11_FillsTileTheGrid ==
    Drew256 =>
        LET side == PALETTE_SQUARE_SIZE * pixel_size
            region(k) == rectangle(ret.fills[k + 1].dim, ret.size)
        IN  /\ ret.size = <<side, side>>
            /\ Len(ret.fills) = HPL_MAX_COLORS
            /\ \A k \in 0..(HPL_MAX_COLORS - 1) :
                  /\ ret.fills[k + 1].ink = k
                  /\ ret.fills[k + 1].fill = palette_cell(k)
                  /\ region(k) = Block(k, pixel_size)
                  /\ Cardinality(region(k)) = pixel_size * pixel_size
                  /\ region(k) \subseteq (0..(side - 1)) \X (0..(side - 1))
            /\ \A j, k \in 0..(HPL_MAX_COLORS - 1) :
                  j # k => region(j) \cap region(k) = {}

=============================================================================
